---- MODULE Spec2Model ----
(***************************************************************************)
(* PortHub: the username-reservation and profile-initialisation workflow.  *)
(* Browser clients run the registration form (auth-form.tsx), the          *)
(* completion form (finish-profile/page.tsx), the session listener         *)
(* (auth-context), the dashboard and the editor against one shared         *)
(* Firestore (collections users, usernames, portfolios) and one Firebase   *)
(* identity provider.  Every awaited call of a handler is a request that   *)
(* is in flight until the step that completes it.                          *)
(***************************************************************************)
EXTENDS Integers, Sequences, FiniteSets, TLC

\* ------------------------------------------------------------- bounds
\* Number of events explored over all clients: user gestures (submit,
\* sign-in, sign-out, opening the dashboard, save) and awaited calls that
\* fail (store or provider errors).
MaxEvents == 3

\* ------------------------------------------------- program constants
UsernameMinLen == 3
UsernameMaxLen == 20
PasswordMinLen == 6

\* ----------------------------------------------------------- universe
Clients == {"c1", "c2"}
Uids == {"acct1", "acct2"}
NONE == "none"
\* The person at each client has one email address, hence one account id,
\* and signs in to Google with the identity of the same address.
OwnUid(c) == IF c = "c1" THEN "acct1" ELSE "acct2"

\* The identity provider issues one account identifier per email address.
EmailOf(uid) == IF uid = "acct1" THEN "u1@example.com" ELSE "u2@example.com"
UidOfEmail(e) == CHOOSE u \in Uids : EmailOf(u) = e
\* Avatar URL the federated provider reports for a principal.
GooglePhotoOf(uid) == IF uid = "acct1" THEN "https://img.example/acct1.png" ELSE ""

\* Usernames are sequences of character codes.
\* "Ann", "ann", "b_" followed by eighteen "9" (20 characters),
\* "ab" (too short), "a-b" (bad character), 21 times "a" (too long).
NameAnn == <<65, 110, 110>>
Nameann == <<97, 110, 110>>
NameLong20 == [i \in 1..20 |-> IF i = 1 THEN 98 ELSE IF i = 2 THEN 95 ELSE 57]
NameShort == <<97, 98>>
NameDash == <<97, 45, 98>>
NameLong21 == [i \in 1..21 |-> 97]
UsernameInputs == {NameAnn, Nameann, NameLong20, NameShort, NameDash, NameLong21}
PasswordLens == {5, 6}

\* ----------------------------------------------------- pure functions
\* String.prototype.toLowerCase on one character code.
LowerChar(ch) == IF ch >= 65 /\ ch <= 90 THEN ch + 32 ELSE ch
toLowerCase(s) == [i \in 1..Len(s) |-> LowerChar(s[i])]

\* /^[a-zA-Z0-9_]+$/
RegexChar(ch) ==
    \/ ch >= 97 /\ ch <= 122
    \/ ch >= 65 /\ ch <= 90
    \/ ch >= 48 /\ ch <= 57
    \/ ch = 95

\* The username rule shared by registerSchema and profileSchema.
usernameSchema_NoMax(u) ==
    /\ Len(u) >= UsernameMinLen
    /\ Len(u) >= 1 /\ \A i \in 1..Len(u) : RegexChar(u[i])

usernameSchema(u) ==
    /\ Len(u) >= UsernameMinLen
    /\ Len(u) <= UsernameMaxLen
    /\ Len(u) >= 1 /\ \A i \in 1..Len(u) : RegexChar(u[i])

registerSchema(u, emailOk, pwLen) ==
    /\ usernameSchema(u)
    /\ emailOk
    /\ pwLen >= PasswordMinLen

profileSchema(u) == usernameSchema(u)

\* ------------------------------------------------------ store records
\* A collection is a function from the ids of its documents to their data.
Put(coll, id, data) ==
    [x \in DOMAIN coll \cup {id} |-> IF x = id THEN data ELSE coll[x]]

\* setDoc(ref, data, { merge: true }): the fields of data replace or add to
\* the fields of the document.
MergeFields(old, data) ==
    [f \in DOMAIN old \cup DOMAIN data |-> IF f \in DOMAIN data THEN data[f] ELSE old[f]]

PutMerge(coll, id, data) ==
    IF id \in DOMAIN coll THEN Put(coll, id, MergeFields(coll[id], data))
    ELSE Put(coll, id, data)

\* checkUsernameUnique: the key of the lookup is the lower-cased candidate.
checkUsernameUnique_NoAwait(reg, username) == TRUE

checkUsernameUnique_NoFold(reg, username) == username \notin DOMAIN reg

checkUsernameUnique(reg, username) == toLowerCase(username) \notin DOMAIN reg

\* The Account document.
UserDoc_Raw(username, email) ==
    [username |-> username, email |-> email, createdAt |-> "serverTimestamp"]

UserDoc(username, email) ==
    [username |-> toLowerCase(username), email |-> email, createdAt |-> "serverTimestamp"]

\* The registry claim: an unconditional setDoc at the lower-cased key.
ClaimWrite_IfAbsent(reg, username, uid) ==
    IF toLowerCase(username) \in DOMAIN reg THEN reg
    ELSE Put(reg, toLowerCase(username), uid)

ClaimWrite_NoFold(reg, username, uid) == Put(reg, username, uid)

ClaimWrite(reg, username, uid) == Put(reg, toLowerCase(username), uid)

\* The profile seed written by the registration form.
RegisterSeed ==
    [fullName |-> "Your Name",
     title |-> "Your Title",
     bio |-> "A short bio about yourself.",
     profilePictureUrl |-> "",
     skills |-> << [str |-> "React"], [str |-> "Next.js"], [str |-> "Firebase"] >>,
     projects |-> << >>,
     theme |-> "default"]

\* The profile seed written by the completion form; photo is user?.photoURL || "".
FinishSeed(photo) ==
    [fullName |-> "Your Name",
     title |-> "Your Title",
     bio |-> "A short bio about yourself.",
     profilePictureUrl |-> photo,
     website |-> "",
     skills |-> << [name |-> "React"], [name |-> "Next.js"], [name |-> "Firebase"] >>,
     projects |-> << >>,
     workExperiences |-> << >>,
     organizationExperiences |-> << >>,
     educations |-> << >>,
     certifications |-> << >>,
     courses |-> << >>,
     testimonials |-> << >>,
     socialMedia |-> << >>,
     theme |-> "default"]

SeedDoc(path, photo) == IF path = "register" THEN RegisterSeed ELSE FinishSeed(photo)

\* The seed write: setDoc(doc(db, "portfolios", uid), {...}) without merge.
SeedWrite_Merge(coll, uid, path, photo) == PutMerge(coll, uid, SeedDoc(path, photo))

SeedWrite(coll, uid, path, photo) == Put(coll, uid, SeedDoc(path, photo))

\* The values the editor form submits (PortfolioFormValues).
EditorData(name, skills) ==
    [fullName |-> name,
     title |-> "Engineer",
     bio |-> "Hello.",
     profilePictureUrl |-> "",
     profilePictureShape |-> "rounded-full",
     profilePictureSize |-> "medium",
     textAlign |-> "text-left",
     theme |-> "default",
     website |-> "",
     skills |-> skills,
     projects |-> << >>,
     workExperiences |-> << >>,
     organizationExperiences |-> << >>,
     educations |-> << >>,
     certifications |-> << >>,
     courses |-> << >>,
     testimonials |-> << >>,
     socialMedia |-> << >>]

EditorInputs == {EditorData("Ann Lee", << [name |-> "Go"] >>)}

\* ------------------------------------------------------------ messages
MsgTaken == "This username is already taken."
MsgTooShort == "Username must be at least 3 characters."
MsgTooLong == "Username must be no more than 20 characters."
MsgBadChar == "Username can only contain letters, numbers, and underscores."
MsgSaveFailed == "Failed to save profile. Please try again."
ErrStore == "firestore/unavailable"
ErrEmailInUse == "auth/email-already-in-use"
ErrProvider == "auth/network-request-failed"
ErrCredential == "auth/invalid-credential"

MsgEmail == "Please enter a valid email."
MsgPassword == "Password must be at least 6 characters."

\* The error react-hook-form records for a field whose value fails the schema.
FieldError(failed, field, message) ==
    IF failed THEN {[field |-> field, message |-> message]} ELSE {}

NoToast == [title |-> "", description |-> ""]

\* The message zod reports first for a username that fails the schema.
UsernameMessage(u) ==
    IF Len(u) < UsernameMinLen THEN MsgTooShort
    ELSE IF Len(u) > UsernameMaxLen THEN MsgTooLong
    ELSE MsgBadChar

\* The catch block of each handler.
ErrorToast_Generic(path, msg) ==
    IF path = "google" THEN [title |-> "Google Sign-In Error", description |-> msg]
    ELSE [title |-> "Error", description |-> MsgSaveFailed]

ErrorToast(path, msg) ==
    IF path = "finish" THEN [title |-> "Error", description |-> MsgSaveFailed]
    ELSE IF path = "google" THEN [title |-> "Google Sign-In Error", description |-> msg]
    ELSE [title |-> "Authentication Error", description |-> msg]

\* --------------------------------------------------------------- state
VARIABLES
    users,       \* collection "users": account id -> Account document
    usernames,   \* collection "usernames": lower-cased username -> uid
    portfolios,  \* collection "portfolios": account id -> ProfileRecord
    idp,         \* identity provider: account id -> photoURL of the principal
    auth,        \* auth.currentUser of each client
    ctx,         \* AuthProvider state of each client: user, userData, loading
    lookups,     \* listener callbacks of each client awaiting getDoc(users/uid)
    page,        \* route each client is on
    params,      \* search params uid and email of the completion page
    form,        \* react-hook-form state: submitted username and field errors
    inv,         \* the handler invocation of each client (last or in flight)
    lastClaim,   \* history: the uid of the last claim write at each key
    budget       \* events left: user gestures and failing calls

vars == <<users, usernames, portfolios, idp, auth, ctx, lookups, page, params,
          form, inv, lastClaim, budget>>

\* An awaited call returns (budget unchanged) or throws (one event is spent).
BudgetNext == IF budget > 0 THEN {budget, budget - 1} ELSE {budget}

NoParams == [uid |-> NONE, email |-> NONE]
EmptyColl == [x \in {} |-> NONE]
Snapshot == [users |-> users, usernames |-> usernames, portfolios |-> portfolios]

IdleInv ==
    [path |-> "none", username |-> << >>, email |-> NONE, uid |-> NONE,
     principal |-> NONE, photo |-> "", inflight |-> {}, acked |-> {},
     result |-> "none", toast |-> NoToast, failedAt |-> "", error |-> "",
     nwrites |-> 0,
     pre |-> [users |-> EmptyColl, usernames |-> EmptyColl, portfolios |-> EmptyColl],
     solo |-> TRUE, prevOwner |-> NONE]

WorkflowPaths == {"register", "finish"}
InFlight(c) == inv[c].inflight # {}
InFlightWorkflow(c) == inv[c].path \in WorkflowPaths /\ InFlight(c)

\* Empty project; each client has loaded the app and its listener has run
\* once with no session (user null, loading false).
Init ==
    /\ users = EmptyColl
    /\ usernames = EmptyColl
    /\ portfolios = EmptyColl
    /\ idp = EmptyColl
    /\ auth = [c \in Clients |-> NONE]
    /\ ctx = [c \in Clients |-> [user |-> NONE, userData |-> {}, loading |-> FALSE]]
    /\ lookups = [c \in Clients |-> << >>]
    /\ page = [c \in Clients |-> "public"]
    /\ params = [c \in Clients |-> NoParams]
    /\ form = [c \in Clients |-> [username |-> << >>, errors |-> {}]]
    /\ inv = [c \in Clients |-> IdleInv]
    /\ lastClaim = EmptyColl
    /\ budget = MaxEvents

\* ------------------------------------------------------ end of a gesture
\* A handler that has returned leaves its outcome on screen (toast, field
\* error); so does a submission the resolver rejected.  The toast times out
\* and the user edits the field, which clears the error.  No handler reads
\* that outcome, so the model lets it clear before the next step of any
\* client: the outcome is observable in exactly the state the handler ends in.
Ended(c) == inv[c].result \in {"ok", "taken", "error"}
Unsettled(c) == Ended(c) \/ form[c].errors # {}
Quiet == \A c \in Clients : ~Unsettled(c)

\* ------------------------------------------------------ session listener
\* onAuthStateChanged fires when the signed-in uid of the client changes.
\* Synchronous part of the callback: setLoading(true); setUser(user) and the
\* getDoc is issued, or setUser(null); setUserData(null); setLoading(false).
CtxAfterAuth(c, nu) ==
    IF nu = auth[c] THEN ctx[c]
    ELSE IF nu # NONE THEN [user |-> nu, userData |-> ctx[c].userData, loading |-> TRUE]
    ELSE [user |-> NONE, userData |-> {}, loading |-> FALSE]

LookupsAfterAuth(c, nu) ==
    IF nu # auth[c] /\ nu # NONE THEN Append(lookups[c], nu) ELSE lookups[c]

SetAuth(c, nu) ==
    /\ auth' = [auth EXCEPT ![c] = nu]
    /\ ctx' = [ctx EXCEPT ![c] = CtxAfterAuth(c, nu)]
    /\ lookups' = [lookups EXCEPT ![c] = LookupsAfterAuth(c, nu)]

RemoveAt(s, i) == [j \in 1..(Len(s) - 1) |-> IF j < i THEN s[j] ELSE s[j + 1]]

\* await getDoc(users/uid) of a callback returns or throws.  When it returns
\* the callback resumes: setUserData, setLoading(false).  The callback has no
\* try/catch: when getDoc throws it ends there and sets nothing.
ListenerResume(c) ==
    /\ Quiet
    /\ \E i \in 1..Len(lookups[c]) :
        LET uid == lookups[c][i] IN
        /\ budget' \in BudgetNext
        /\ ctx' = IF budget' = budget
                  THEN [ctx EXCEPT ![c].userData =
                           IF uid \in DOMAIN users
                           THEN {[uid |-> uid, username |-> users[uid].username,
                                  email |-> users[uid].email]}
                           ELSE {},
                        ![c].loading = FALSE]
                  ELSE ctx
        /\ lookups' = [lookups EXCEPT ![c] = RemoveAt(lookups[c], i)]
        /\ UNCHANGED <<users, usernames, portfolios, idp, auth, page, params,
                       form, inv, lastClaim>>

\* ------------------------------------------------------ handler plumbing
\* The await chain of each handler: the calls issued when op is acknowledged.
NextOps_NoAwait(path, op) ==
    IF op = "check" THEN (IF path = "register" THEN {"createUser"} ELSE {"writeUser"})
    ELSE IF op = "createUser" THEN {"writeUser"}
    ELSE IF op = "writeUser" THEN {"claim", "seed"}
    ELSE IF op = "popup" THEN {"getUser"}
    ELSE {}

NextOps(path, op) ==
    IF op = "check" THEN (IF path = "register" THEN {"createUser"} ELSE {"writeUser"})
    ELSE IF op = "createUser" THEN {"writeUser"}
    ELSE IF op = "writeUser" THEN {"claim"}
    ELSE IF op = "claim" THEN {"seed"}
    ELSE IF op = "popup" THEN {"getUser"}
    ELSE {}

\* The first awaited call of each handler.
FirstOps_CreateFirst(path) ==
    IF path = "register" THEN {"createUser"}
    ELSE IF path = "finish" THEN {"check"}
    ELSE IF path = "google" THEN {"popup"}
    ELSE {"signIn"}

FirstOps(path) ==
    IF path \in WorkflowPaths THEN {"check"}
    ELSE IF path = "google" THEN {"popup"}
    ELSE {"signIn"}

\* A handler starts: one per client at a time (the buttons are disabled while
\* it is pending).  Another client's running workflow is no longer alone.
Started(c, rec) ==
    [d \in Clients |->
        IF d = c THEN rec
        ELSE IF rec.path \in WorkflowPaths /\ InFlightWorkflow(d)
             THEN [inv[d] EXCEPT !.solo = FALSE]
             ELSE inv[d]]

NewInv(c, path, u, e, uid, principal, photo) ==
    [IdleInv EXCEPT !.path = path, !.username = u, !.email = e, !.uid = uid,
                    !.principal = principal, !.photo = photo,
                    !.inflight = FirstOps(path), !.result = "pending",
                    !.pre = Snapshot,
                    !.solo = \A d \in Clients \ {c} : ~InFlightWorkflow(d)]

\* op is acknowledged: the handler resumes and issues its next calls.
Acked(c, op, isWrite) ==
    LET nxt == (inv[c].inflight \ {op}) \cup NextOps(inv[c].path, op) IN
    [inv[c] EXCEPT !.inflight = nxt,
                   !.acked = @ \cup {op},
                   !.nwrites = IF isWrite THEN @ + 1 ELSE @,
                   !.result = IF nxt = {} THEN "ok" ELSE "pending"]

\* op throws: the catch block shows the toast and the handler ends.
Failed_Continue(c, op, msg) ==
    [inv[c] EXCEPT !.inflight = NextOps(inv[c].path, op),
                   !.result = "error",
                   !.failedAt = op,
                   !.error = msg,
                   !.toast = ErrorToast(inv[c].path, msg)]

Failed_Silent(c, op, msg) ==
    [inv[c] EXCEPT !.inflight = {},
                   !.result = "error",
                   !.failedAt = op,
                   !.error = msg]

Failed(c, op, msg) ==
    [inv[c] EXCEPT !.inflight = {},
                   !.result = "error",
                   !.failedAt = op,
                   !.error = msg,
                   !.toast = ErrorToast(inv[c].path, msg)]

\* A store write of client c lands: the other running workflows see it.
AfterWrite(c, rec) ==
    [d \in Clients |->
        IF d = c THEN rec
        ELSE IF InFlightWorkflow(d) THEN [inv[d] EXCEPT !.solo = FALSE]
        ELSE inv[d]]

\* A write of the editor lands: every running workflow, that of the saving
\* client included, has had another writer beside it.
AfterEditorWrite ==
    [d \in Clients |->
        IF InFlightWorkflow(d) THEN [inv[d] EXCEPT !.solo = FALSE] ELSE inv[d]]

CanStart(c) == ~InFlight(c) /\ ~ctx[c].loading /\ budget > 0

\* --------------------------------------------------- registration form
\* The user opens /register and submits: form.handleSubmit(onSubmit) of
\* AuthForm in register mode.  The zod resolver runs first; onSubmit is
\* entered only with values that pass registerSchema.
SubmitRegister(c) ==
    /\ Quiet
    /\ CanStart(c)
    /\ \E u \in UsernameInputs, t \in {OwnUid(c)}, emailOk \in BOOLEAN, pwLen \in PasswordLens :
        /\ page' = [page EXCEPT ![c] = "public"]
        /\ params' = [params EXCEPT ![c] = NoParams]
        /\ budget' = budget - 1
        /\ IF registerSchema(u, emailOk, pwLen)
           THEN /\ form' = [form EXCEPT ![c] = [username |-> u, errors |-> {}]]
                /\ inv' = Started(c, NewInv(c, "register", u, EmailOf(t), NONE,
                                            auth[c], ""))
           ELSE /\ form' = [form EXCEPT ![c] =
                       [username |-> u,
                        errors |-> FieldError(~usernameSchema(u), "username", UsernameMessage(u))
                                   \cup FieldError(~emailOk, "email", MsgEmail)
                                   \cup FieldError(pwLen < PasswordMinLen, "password", MsgPassword)]]
                /\ UNCHANGED inv
        /\ UNCHANGED <<users, usernames, portfolios, idp, auth, ctx, lookups,
                       lastClaim>>

\* --------------------------------------------------- completion form
\* The user submits /finish-profile?uid=..&email=.., reached by a redirect of
\* the application or by opening the URL: form.handleSubmit(onSubmit) of
\* FinishProfileForm.  The form is rendered only for a signed-in session; uid
\* and email are the search params of the page, whoever is signed in.
SubmitFinish(c) ==
    /\ Quiet
    /\ CanStart(c)
    /\ \E u \in UsernameInputs, x \in Uids :
        LET uid == x
            email == EmailOf(x)
        IN
        /\ ctx[c].user # NONE
        /\ page' = [page EXCEPT ![c] = "finish"]
        /\ params' = [params EXCEPT ![c] = [uid |-> uid, email |-> email]]
        /\ budget' = budget - 1
        /\ IF profileSchema(u)
           THEN /\ form' = [form EXCEPT ![c] = [username |-> u, errors |-> {}]]
                /\ inv' = Started(c, NewInv(c, "finish", u, email, uid, ctx[c].user,
                                            idp[ctx[c].user]))
           ELSE /\ form' = [form EXCEPT ![c] =
                       [username |-> u,
                        errors |-> {[field |-> "username", message |-> UsernameMessage(u)]}]]
                /\ UNCHANGED inv
        /\ UNCHANGED <<users, usernames, portfolios, idp, auth, ctx, lookups,
                       lastClaim>>

\* ------------------------------------------------ steps of the workflow
\* await checkUsernameUnique(username) returns or throws.
CheckDone_NoReturn(c) ==
    /\ "check" \in inv[c].inflight
    /\ Quiet
    /\ budget' \in BudgetNext
    /\ LET ok == budget' = budget IN
        IF ~ok
        THEN /\ inv' = [inv EXCEPT ![c] = Failed(c, "check", ErrStore)]
             /\ UNCHANGED form
        ELSE IF checkUsernameUnique(usernames, inv[c].username)
        THEN /\ inv' = [inv EXCEPT ![c] = Acked(c, "check", FALSE)]
             /\ UNCHANGED form
        ELSE /\ inv' = [inv EXCEPT ![c] = Acked(c, "check", FALSE)]
             /\ form' = [form EXCEPT ![c].errors =
                            {[field |-> "username", message |-> MsgTaken]}]
    /\ UNCHANGED <<users, usernames, portfolios, idp, auth, ctx, lookups, page,
                   params, lastClaim>>

CheckDone(c) ==
    /\ "check" \in inv[c].inflight
    /\ Quiet
    /\ budget' \in BudgetNext
    /\ LET ok == budget' = budget IN
        IF ~ok
        THEN /\ inv' = [inv EXCEPT ![c] = Failed(c, "check", ErrStore)]
             /\ UNCHANGED form
        ELSE IF checkUsernameUnique(usernames, inv[c].username)
        THEN /\ inv' = [inv EXCEPT ![c] = Acked(c, "check", FALSE)]
             /\ UNCHANGED form
        ELSE /\ inv' = [inv EXCEPT ![c].inflight = {}, ![c].acked = @ \cup {"check"},
                                   ![c].result = "taken"]
             /\ form' = [form EXCEPT ![c].errors =
                            {[field |-> "username", message |-> MsgTaken]}]
    /\ UNCHANGED <<users, usernames, portfolios, idp, auth, ctx, lookups, page,
                   params, lastClaim>>

\* await createUserWithEmailAndPassword(auth, email, password) returns or throws;
\* on success the client is signed in as the new principal.
CreateUserDone(c) ==
    /\ "createUser" \in inv[c].inflight
    /\ Quiet
    /\ LET t == UidOfEmail(inv[c].email) IN
       IF t \in DOMAIN idp
       THEN /\ inv' = [inv EXCEPT ![c] = Failed(c, "createUser", ErrEmailInUse)]
            /\ UNCHANGED <<idp, auth, ctx, lookups, budget>>
       ELSE /\ budget' \in BudgetNext
            /\ IF budget' # budget
               THEN /\ inv' = [inv EXCEPT ![c] = Failed(c, "createUser", ErrProvider)]
                    /\ UNCHANGED <<idp, auth, ctx, lookups>>
               ELSE /\ idp' = Put(idp, t, "")
                    /\ SetAuth(c, t)
                    /\ inv' = [inv EXCEPT ![c] =
                                 [Acked(c, "createUser", FALSE) EXCEPT !.uid = t]]
    /\ UNCHANGED <<users, usernames, portfolios, page, params, form, lastClaim>>

\* await setDoc(doc(db, "users", uid), {...}) returns or throws.
WriteUserDone(c) ==
    /\ "writeUser" \in inv[c].inflight
    /\ Quiet
    /\ budget' \in BudgetNext
    /\ LET ok == budget' = budget IN
        IF ok
        THEN /\ users' = Put(users, inv[c].uid, UserDoc(inv[c].username, inv[c].email))
             /\ inv' = AfterWrite(c, Acked(c, "writeUser", TRUE))
        ELSE /\ inv' = [inv EXCEPT ![c] = Failed(c, "writeUser", ErrStore)]
             /\ UNCHANGED users
    /\ UNCHANGED <<usernames, portfolios, idp, auth, ctx, lookups, page, params,
                   form, lastClaim>>

\* await setDoc(doc(db, "usernames", username.toLowerCase()), {uid}) returns or throws.
ClaimDone(c) ==
    /\ "claim" \in inv[c].inflight
    /\ Quiet
    /\ budget' \in BudgetNext
    /\ LET ok == budget' = budget IN
        IF ok
        THEN LET k == toLowerCase(inv[c].username) IN
             /\ usernames' = ClaimWrite(usernames, inv[c].username, inv[c].uid)
             /\ lastClaim' = Put(lastClaim, k, inv[c].uid)
             /\ inv' = AfterWrite(c, [Acked(c, "claim", TRUE) EXCEPT !.prevOwner =
                                         IF k \in DOMAIN usernames THEN usernames[k] ELSE NONE])
        ELSE /\ inv' = [inv EXCEPT ![c] = Failed(c, "claim", ErrStore)]
             /\ UNCHANGED <<usernames, lastClaim>>
    /\ UNCHANGED <<users, portfolios, idp, auth, ctx, lookups, page, params,
                   form>>

\* await setDoc(doc(db, "portfolios", uid), {...defaults}) returns or throws;
\* when the handler has nothing left in flight it pushes /dashboard.
SeedDone(c) ==
    /\ "seed" \in inv[c].inflight
    /\ Quiet
    /\ budget' \in BudgetNext
    /\ LET ok == budget' = budget IN
        IF ok
        THEN LET rec == Acked(c, "seed", TRUE) IN
             /\ portfolios' = SeedWrite(portfolios, inv[c].uid, inv[c].path, inv[c].photo)
             /\ inv' = AfterWrite(c, [rec EXCEPT !.toast =
                          IF inv[c].path = "finish" /\ rec.result = "ok"
                          THEN [title |-> "Profile complete!",
                                description |-> "Welcome to PortfolioHub."]
                          ELSE @])
             /\ page' = [page EXCEPT ![c] = IF rec.result = "ok" THEN "dashboard" ELSE @]
             /\ params' = [params EXCEPT ![c] = IF rec.result = "ok" THEN NoParams ELSE @]
        ELSE /\ inv' = [inv EXCEPT ![c] = Failed(c, "seed", ErrStore)]
             /\ UNCHANGED <<portfolios, page, params>>
    /\ UNCHANGED <<users, usernames, idp, auth, ctx, lookups, form, lastClaim>>

\* ------------------------------------------------- federated sign-in
\* The user opens /login and clicks the Google button: handleGoogleSignIn.
GoogleStart(c) ==
    /\ Quiet
    /\ CanStart(c)
    /\ \E g \in {OwnUid(c)} :
        /\ page' = [page EXCEPT ![c] = "public"]
        /\ params' = [params EXCEPT ![c] = NoParams]
        /\ budget' = budget - 1
        /\ inv' = Started(c, NewInv(c, "google", << >>, EmailOf(g), g, auth[c], ""))
        /\ UNCHANGED <<users, usernames, portfolios, idp, auth, ctx, lookups, form,
                       lastClaim>>

\* await signInWithPopup(auth, provider) returns or throws; the first sign-in
\* of an identity creates its principal.
PopupDone(c) ==
    /\ "popup" \in inv[c].inflight
    /\ Quiet
    /\ budget' \in BudgetNext
    /\ LET g == inv[c].uid IN
       LET ok == budget' = budget IN
        IF ok
        THEN /\ idp' = IF g \in DOMAIN idp THEN idp ELSE Put(idp, g, GooglePhotoOf(g))
             /\ SetAuth(c, g)
             /\ inv' = [inv EXCEPT ![c] = Acked(c, "popup", FALSE)]
        ELSE /\ inv' = [inv EXCEPT ![c] = Failed(c, "popup", ErrProvider)]
             /\ UNCHANGED <<idp, auth, ctx, lookups>>
    /\ UNCHANGED <<users, usernames, portfolios, page, params, form, lastClaim>>

\* await getDoc(doc(db, 'users', user.uid)) returns or throws; the handler
\* pushes the completion page for a principal without Account, else /dashboard.
GetUserDone(c) ==
    /\ "getUser" \in inv[c].inflight
    /\ Quiet
    /\ budget' \in BudgetNext
    /\ LET g == inv[c].uid IN
       LET ok == budget' = budget IN
        IF ok
        THEN /\ inv' = [inv EXCEPT ![c] = Acked(c, "getUser", FALSE)]
             /\ page' = [page EXCEPT ![c] =
                            IF g \in DOMAIN users THEN "dashboard" ELSE "finish"]
             /\ params' = [params EXCEPT ![c] =
                            IF g \in DOMAIN users THEN NoParams
                            ELSE [uid |-> g, email |-> EmailOf(g)]]
        ELSE /\ inv' = [inv EXCEPT ![c] = Failed(c, "getUser", ErrStore)]
             /\ UNCHANGED <<page, params>>
    /\ UNCHANGED <<users, usernames, portfolios, idp, auth, ctx, lookups, form,
                   lastClaim>>

\* ------------------------------------------------------ password login
\* The user opens /login and submits: onSubmit of AuthForm in login mode.
LoginStart(c) ==
    /\ Quiet
    /\ CanStart(c)
    /\ \E t \in {OwnUid(c)} :
        /\ page' = [page EXCEPT ![c] = "public"]
        /\ params' = [params EXCEPT ![c] = NoParams]
        /\ budget' = budget - 1
        /\ inv' = Started(c, NewInv(c, "login", << >>, EmailOf(t), t, auth[c], ""))
        /\ UNCHANGED <<users, usernames, portfolios, idp, auth, ctx, lookups, form,
                       lastClaim>>

\* await signInWithEmailAndPassword(auth, email, password) returns or throws.
SignInDone(c) ==
    /\ "signIn" \in inv[c].inflight
    /\ Quiet
    /\ LET t == inv[c].uid IN
       IF t \notin DOMAIN idp
       THEN /\ inv' = [inv EXCEPT ![c] = Failed(c, "signIn", ErrCredential)]
            /\ UNCHANGED <<auth, ctx, lookups, page, params, budget>>
       ELSE /\ budget' \in BudgetNext
            /\ IF budget' # budget
               THEN /\ inv' = [inv EXCEPT ![c] = Failed(c, "signIn", ErrProvider)]
                    /\ UNCHANGED <<auth, ctx, lookups, page, params>>
               ELSE /\ SetAuth(c, t)
                    /\ inv' = [inv EXCEPT ![c] = Acked(c, "signIn", FALSE)]
                    /\ page' = [page EXCEPT ![c] = "dashboard"]
                    /\ params' = [params EXCEPT ![c] = NoParams]
    /\ UNCHANGED <<users, usernames, portfolios, idp, form, lastClaim>>

\* handleLogout of the header: auth.signOut(), then router.push('/').
Logout(c) ==
    /\ Quiet
    /\ auth[c] # NONE
    /\ ~ctx[c].loading
    /\ budget > 0
    /\ budget' = budget - 1
    /\ SetAuth(c, NONE)
    /\ page' = [page EXCEPT ![c] = "public"]
    /\ params' = [params EXCEPT ![c] = NoParams]
    /\ UNCHANGED <<users, usernames, portfolios, idp, form, inv, lastClaim>>

\* The user signs out in another tab of the same browser (handleLogout there):
\* the auth state is shared by the tabs, so the listener of this tab is
\* notified, whatever this tab shows and whatever its listener is waiting for.
SignOutElsewhere(c) ==
    /\ Quiet
    /\ auth[c] # NONE
    /\ budget > 0
    /\ budget' = budget - 1
    /\ SetAuth(c, NONE)
    /\ UNCHANGED <<users, usernames, portfolios, idp, page, params, form, inv,
                   lastClaim>>

\* ------------------------------------------------------------- routing
\* The user opens /dashboard or /editor.
Navigate(c) ==
    /\ Quiet
    /\ \E target \in {"dashboard", "editor"} :
        /\ budget > 0
        /\ page[c] # target
        /\ budget' = budget - 1
        /\ page' = [page EXCEPT ![c] = target]
        /\ params' = [params EXCEPT ![c] = NoParams]
        /\ UNCHANGED <<users, usernames, portfolios, idp, auth, ctx, lookups,
                       form, inv, lastClaim>>

\* DashboardPage renders with the session loaded: no user goes to /login, a
\* user without userData goes to the completion page with its own uid and email.
DashboardRender(c) ==
    /\ Quiet
    /\ page[c] = "dashboard"
    /\ ~ctx[c].loading
    /\ \/ /\ ctx[c].user = NONE
          /\ page' = [page EXCEPT ![c] = "public"]
          /\ UNCHANGED params
       \/ /\ ctx[c].user # NONE
          /\ ctx[c].userData = {}
          /\ page' = [page EXCEPT ![c] = "finish"]
          /\ params' = [params EXCEPT ![c] =
                          [uid |-> ctx[c].user, email |-> EmailOf(ctx[c].user)]]
    /\ UNCHANGED <<users, usernames, portfolios, idp, auth, ctx, lookups, form, inv,
                   lastClaim, budget>>

\* The effect of FinishProfileForm and of EditorPage: without a user, /login.
SignedOutGuard(c) ==
    /\ Quiet
    /\ page[c] \in {"finish", "editor"}
    /\ ~ctx[c].loading
    /\ ctx[c].user = NONE
    /\ page' = [page EXCEPT ![c] = "public"]
    /\ params' = [params EXCEPT ![c] = NoParams]
    /\ UNCHANGED <<users, usernames, portfolios, idp, auth, ctx, lookups, form, inv,
                   lastClaim, budget>>

\* --------------------------------------------------------------- editor
\* The user opens /editor and saves: onSubmit of EditorPage,
\* setDoc(portfolios/user.uid, data, { merge: true }).
EditorSave(c) ==
    /\ Quiet
    /\ \E data \in EditorInputs, ok \in BOOLEAN :
        /\ ~ctx[c].loading
        /\ ctx[c].user # NONE
        /\ budget > (IF ok THEN 0 ELSE 1)
        /\ budget' = budget - (IF ok THEN 1 ELSE 2)
        /\ page' = [page EXCEPT ![c] = "editor"]
        /\ params' = [params EXCEPT ![c] = NoParams]
        /\ IF ok
           THEN /\ portfolios' = PutMerge(portfolios, ctx[c].user, data)
                /\ inv' = AfterEditorWrite
           ELSE UNCHANGED <<portfolios, inv>>
        /\ UNCHANGED <<users, usernames, idp, auth, ctx, lookups, form, lastClaim>>

\* ---------------------------------------------------------- public page
\* Firestore returns the documents of a query in the order of their ids.
UidRank(uid) == IF uid = "acct1" THEN 1 ELSE 2

NotFound == [notFound |-> TRUE]

\* getPortfolioData(username) of the public page /[username]: the first
\* Account whose username equals the lower-cased parameter, then the
\* ProfileRecord at that Account's id; null (notFound()) when either is missing.
getPortfolioData(us, ps, username) ==
    LET matches == {a \in DOMAIN us : us[a].username = toLowerCase(username)} IN
    IF matches = {} THEN NotFound
    ELSE LET uid == CHOOSE a \in matches : \A b \in matches : UidRank(a) <= UidRank(b) IN
         IF uid \in DOMAIN ps THEN ps[uid] ELSE NotFound

\* DashboardPage shows its content: session loaded, a user, and userData.
DashboardShown(c) ==
    /\ page[c] = "dashboard"
    /\ ~ctx[c].loading
    /\ ctx[c].user # NONE
    /\ ctx[c].userData # {}

\* The outcome of an ended gesture clears.
Settle(c) ==
    /\ Unsettled(c)
    /\ inv' = [inv EXCEPT ![c] = IdleInv]
    /\ form' = [form EXCEPT ![c] = [username |-> << >>, errors |-> {}]]
    /\ UNCHANGED <<users, usernames, portfolios, idp, auth, ctx, lookups, page,
                   params, lastClaim, budget>>

\* ----------------------------------------------------------------- spec
Step(c) ==
    \/ SubmitRegister(c)
    \/ SubmitFinish(c)
    \/ CheckDone(c)
    \/ CreateUserDone(c)
    \/ WriteUserDone(c)
    \/ ClaimDone(c)
    \/ SeedDone(c)
    \/ GoogleStart(c)
    \/ PopupDone(c)
    \/ GetUserDone(c)
    \/ LoginStart(c)
    \/ SignInDone(c)
    \/ Logout(c)
    \/ SignOutElsewhere(c)
    \/ Navigate(c)
    \/ DashboardRender(c)
    \/ SignedOutGuard(c)
    \/ EditorSave(c)
    \/ ListenerResume(c)

Next ==
    \/ \E c \in Clients : Step(c)
    \/ \E c \in Clients : Settle(c)

Spec == Init /\ [][Next]_vars

\* ============================================================== claims
\* Reference notions the properties are stated with.
Folded(u) == [i \in DOMAIN u |-> IF u[i] \in 65..90 THEN u[i] + 32 ELSE u[i]]
WellFormed(u) ==
    /\ Len(u) \in 3..20
    /\ \A i \in DOMAIN u :
          \/ (48 <= u[i] /\ u[i] <= 57)
          \/ (65 <= u[i] /\ u[i] <= 90)
          \/ (97 <= u[i] /\ u[i] <= 122)
          \/ u[i] = 95
Has(coll, id) == id \in DOMAIN coll
\* coll2 is coll with exactly the document id added or replaced.
OnlyChangedAt(coll, coll2, id) ==
    /\ DOMAIN coll2 = DOMAIN coll \cup {id}
    /\ \A x \in DOMAIN coll \ {id} : coll2[x] = coll[x]
NoWorkflowInFlight == \A c \in Clients : ~InFlightWorkflow(c)

\* A workflow invocation that ran alone ends well; what the store then holds.
C1_Case(c) ==
    /\ inv[c].path \in WorkflowPaths
    /\ inv[c].result = "pending"
    /\ inv'[c].result = "ok"
    /\ inv[c].solo
    /\ inv[c].path = "finish" =>
          /\ inv[c].uid = inv[c].principal
          /\ inv[c].email = EmailOf(inv[c].principal)

C1_Post(c) ==
    LET a == inv'[c].uid
        k == Folded(inv[c].username)
        pre == inv[c].pre
    IN  /\ OnlyChangedAt(pre.users, users', a)
        /\ users'[a].username = k
        /\ users'[a].email = EmailOf(a)
        /\ OnlyChangedAt(pre.usernames, usernames', k)
        /\ usernames'[k] = a
        /\ OnlyChangedAt(pre.portfolios, portfolios', a)

\* C1: a workflow run for account a (direct registration, or federated
\* completion by principal a with its own uid and email) that passed the
\* availability check, met no failure and overlapped no other invocation or
\* write ends with users[a] = {lower(u), email of a}, usernames[lower(u)] = a
\* and a portfolios[a], every other document being as it was at the start.
C1_WorkflowResult == [][\A c \in Clients : C1_Case(c) => C1_Post(c)]_vars

\* A federated completion by the principal itself, alone, has just ended well
\* with a username that is not in lower case.
C1_Witness ==
    \E c \in Clients :
        /\ inv[c].path = "finish" /\ inv[c].result = "ok" /\ inv[c].solo
        /\ inv[c].uid = inv[c].principal
        /\ inv[c].username # Folded(inv[c].username)
        /\ Has(users, inv[c].uid) /\ Has(portfolios, inv[c].uid)
        /\ usernames[Folded(inv[c].username)] = inv[c].uid

\* C2: the registry entry of every key holds the uid of the claim write that
\* landed last (both racers pass the check and neither is told of the other).
C2_LastClaimWins ==
    \A k \in DOMAIN lastClaim : Has(usernames, k) /\ usernames[k] = lastClaim[k]

\* Two events, both registrations: two Accounts carry the same username, the
\* second workflow has just ended well, and the registry names one of them.
C2_Witness ==
    /\ budget = MaxEvents - 2
    /\ \E c \in Clients : inv[c].path \in WorkflowPaths /\ inv[c].result = "ok"
    /\ \E a, b \in DOMAIN users :
        /\ a # b
        /\ users[a].username = users[b].username
        /\ Has(portfolios, a) /\ Has(portfolios, b)
        /\ usernames[users[a].username] = a

\* The claim write of an invocation is acknowledged; what the registry then holds.
C3_Case(c) ==
    /\ "claim" \in inv[c].inflight
    /\ "claim" \notin inv'[c].inflight
    /\ budget' = budget

C3_Post(c) ==
    LET k == Folded(inv[c].username) IN
    /\ inv'[c].result # "error"
    /\ Has(usernames', k)
    /\ usernames'[k] = inv[c].uid
    /\ \A v \in UsernameInputs : Folded(v) = k => ~checkUsernameUnique(usernames', v)

\* C3: when a claim of username u for account a is acknowledged, the handler
\* is not in error, usernames[lower(u)] is a whoever held the key before, and
\* the availability check answers false for every spelling of u.
C3_ClaimOverwrites == [][\A c \in Clients : C3_Case(c) => C3_Post(c)]_vars

\* A claim has been acknowledged at a key another account held.
C3_Witness ==
    \E c \in Clients :
        /\ "claim" \in inv[c].acked
        /\ inv[c].prevOwner \notin {NONE, inv[c].uid}
        /\ usernames[Folded(inv[c].username)] = inv[c].uid

\* The availability check is answered while the folded key is held.
C4_Case(c) ==
    /\ "check" \in inv[c].inflight
    /\ "check" \notin inv'[c].inflight
    /\ budget' = budget
    /\ Has(usernames, Folded(inv[c].username))

C4_Post(c) ==
    /\ inv'[c].result = "taken"
    /\ inv'[c].inflight = {}
    /\ inv'[c].nwrites = 0
    /\ UNCHANGED <<users, usernames, portfolios, idp>>

\* C4: an availability check answered while the registry holds the folded
\* key ends the invocation as "taken" with nothing written, whatever the
\* case of the submitted letters; stored Account usernames are lower case.
C4_CaseInsensitive ==
    [][/\ \A c \in Clients : C4_Case(c) => C4_Post(c)
       /\ users' # users =>
            \A a \in DOMAIN users' : users'[a].username = Folded(users'[a].username)]_vars

\* A username with a capital letter was rejected as taken.
C4_Witness ==
    \E c \in Clients :
        /\ inv[c].result = "taken"
        /\ inv[c].username # Folded(inv[c].username)
        /\ \E a \in DOMAIN users : users[a].username = Folded(inv[c].username)

\* A form records an error for a username of the wrong format.
C5_Case(c) ==
    /\ form'[c] # form[c]
    /\ form'[c].errors # {}
    /\ ~WellFormed(form'[c].username)

C5_Post(c) ==
    /\ \E e \in form'[c].errors : e.field = "username"
    /\ UNCHANGED <<users, usernames, portfolios, idp, auth, ctx, lookups, inv>>

\* C5: a submission whose username is malformed records a username field
\* error and changes nothing else: no handler is entered, nothing is read or
\* written; every handler that was entered has a well-formed username.
C5_FormatRejected ==
    [][/\ \A c \in Clients : C5_Case(c) => C5_Post(c)
       /\ \A c \in Clients :
            (inv'[c].path \in WorkflowPaths /\ inv'[c].username # inv[c].username)
                => WellFormed(inv'[c].username)]_vars

\* The completion form has rejected a 21-character username.
C5_Witness ==
    \E c \in Clients :
        /\ page[c] = "finish"
        /\ Len(form[c].username) = 21
        /\ \E e \in form[c].errors : e.field = "username"
        /\ inv[c].path = "none"

\* C6: whenever the "already taken" error is on the username field, the
\* invocation has ended as "taken" without a toast and has written nothing;
\* if nothing else wrote meanwhile the three collections are as at its start.
C6_TakenWritesNothing ==
    \A c \in Clients :
        [field |-> "username", message |-> MsgTaken] \in form[c].errors =>
            /\ inv[c].path \in WorkflowPaths
            /\ inv[c].result = "taken"
            /\ inv[c].inflight = {}
            /\ inv[c].nwrites = 0
            /\ inv[c].toast = NoToast
            /\ inv[c].solo => Snapshot = inv[c].pre

\* Both forms reject: here the completion form, for a key held by an Account.
C6_Witness ==
    \E c \in Clients :
        /\ inv[c].path = "finish"
        /\ inv[c].result = "taken"
        /\ inv[c].solo
        /\ Has(usernames, Folded(inv[c].username))

\* C7: a registration whose createUserWithEmailAndPassword failed has ended
\* with the toast "Authentication Error" carrying the provider's message and
\* has written nothing.
C7_CreateUserFails ==
    \A c \in Clients :
        inv[c].failedAt = "createUser" =>
            /\ inv[c].path = "register"
            /\ inv[c].result = "error"
            /\ inv[c].inflight = {}
            /\ inv[c].error \in {ErrEmailInUse, ErrProvider}
            /\ inv[c].toast = [title |-> "Authentication Error",
                               description |-> inv[c].error]
            /\ inv[c].nwrites = 0
            /\ inv[c].uid = NONE
            /\ inv[c].solo => Snapshot = inv[c].pre

\* The email of the registrant was already in use.
C7_Witness ==
    \E c \in Clients :
        /\ inv[c].failedAt = "createUser"
        /\ inv[c].error = ErrEmailInUse
        /\ inv[c].solo

\* C8: a workflow invocation has at most one call in flight; a write is in
\* flight or done only after the check was answered, the claim only after
\* the Account write was acknowledged, the seed only after the claim was.
C8_StrictSequence ==
    \A c \in Clients :
        inv[c].path \in WorkflowPaths =>
            LET issued == inv[c].inflight \cup inv[c].acked IN
            /\ Cardinality(inv[c].inflight) <= 1
            /\ issued \cap {"writeUser", "claim", "seed"} # {} => "check" \in inv[c].acked
            /\ inv[c].nwrites > 0 => "check" \in inv[c].acked
            /\ "claim" \in issued => "writeUser" \in inv[c].acked
            /\ "seed" \in issued => "claim" \in inv[c].acked

\* The profile seed of a completion is in flight.
C8_Witness ==
    \E c \in Clients : inv[c].path = "finish" /\ inv[c].inflight = {"seed"}

\* C9 (as claimed): with no workflow invocation in flight, every Account's
\* username has a registry entry whose uid is that account.
C9_AccountHasRegistryEntry ==
    NoWorkflowInFlight =>
        \A a \in DOMAIN users :
            /\ Has(usernames, users[a].username)
            /\ usernames[users[a].username] = a

\* C10 (as claimed): with no workflow invocation in flight, portfolios[a]
\* exists exactly when users[a] exists.
C10_ProfileIffAccount ==
    NoWorkflowInFlight => DOMAIN portfolios = DOMAIN users

\* A session check (not a gesture of the user) sends client c to the
\* completion page.
RoutedToCompletion(c) ==
    /\ page[c] # "finish"
    /\ page'[c] = "finish"
    /\ budget' = budget

\* The lookup of handleGoogleSignIn is answered.
GetUserAnswered(c) ==
    /\ "getUser" \in inv[c].inflight
    /\ "getUser" \notin inv'[c].inflight
    /\ budget' = budget

\* C11 (as claimed): a session check routes a principal to the completion
\* page if and only if it has no Account, and the dashboard content is never
\* shown to a principal without Account.
C11_RoutedIffNoAccount ==
    [][\A c \in Clients :
         /\ RoutedToCompletion(c) => ~Has(users, params'[c].uid)
         /\ (GetUserAnswered(c) /\ ~Has(users, inv[c].uid)) => page'[c] = "finish"
         /\ DashboardShown(c)' => Has(users', ctx'[c].user)]_vars

\* C12 (as claimed): the dashboard is not shown to a principal without
\* Account; when a completion run by the principal for itself has ended well
\* and the session has no lookup pending and is loaded, the dashboard is shown.
C12_CompletionThenDashboard ==
    \A c \in Clients :
        /\ DashboardShown(c) => Has(users, ctx[c].user)
        /\ ( /\ inv[c].path = "finish"
             /\ inv[c].result = "ok"
             /\ inv[c].uid = inv[c].principal
             /\ ctx[c].user = inv[c].uid
             /\ lookups[c] = << >>
             /\ ~ctx[c].loading ) => DashboardShown(c)

\* C13 (as claimed): when a registration has ended well and the listener's
\* lookup for the new principal has been answered, the dashboard is shown.
C13_RegistrationThenDashboard ==
    \A c \in Clients :
        ( /\ inv[c].path = "register"
          /\ inv[c].result = "ok"
          /\ ctx[c].user = inv[c].uid
          /\ lookups[c] = << >>
          /\ ~ctx[c].loading ) => DashboardShown(c)

\* The invocation of client c started when an earlier run for the same
\* account and username had stopped after the Account write: the registry
\* entry is missing, or it is the account's own and the ProfileRecord is missing.
RerunAfterFailure(c) ==
    LET a == UidOfEmail(inv[c].email)
        k == Folded(inv[c].username)
        pre == inv[c].pre
    IN  /\ inv[c].path \in WorkflowPaths
        /\ inv[c].solo
        /\ Has(pre.users, a)
        /\ pre.users[a].username = k
        /\ \/ ~Has(pre.usernames, k)
           \/ pre.usernames[k] = a /\ ~Has(pre.portfolios, a)

\* C14 (as claimed): a re-run of the workflow for the same account and
\* username after a store failure is not turned away: it is neither rejected
\* as taken nor refused by the identity provider.
C14_RerunCompletes ==
    \A c \in Clients :
        RerunAfterFailure(c) =>
            /\ inv[c].result # "taken"
            /\ inv[c].error # ErrEmailInUse

\* A call of a handler of client c throws.
C15_Case(c) ==
    /\ inv[c].result = "pending"
    /\ inv'[c].result = "error"

C15_Post(c) ==
    /\ inv'[c].toast # NoToast
    /\ inv'[c].inflight = {}
    /\ auth'[c] = auth[c]
    /\ ctx'[c] = ctx[c]
    /\ UNCHANGED <<users, usernames, portfolios, page, params>>

\* C15: every failure of a call of the registration, federated sign-in,
\* login or completion handler ends the handler with a toast and nothing in
\* flight (the form can be submitted again), and leaves the session, the
\* route and the store as they were: the handler signs nobody out.
C15_FailureCaught == [][\A c \in Clients : C15_Case(c) => C15_Post(c)]_vars

\* A completion attempt has failed at a store write and the principal is
\* still signed in.
C15_Witness ==
    \E c \in Clients :
        /\ inv[c].path = "finish"
        /\ inv[c].result = "error"
        /\ inv[c].failedAt \in {"writeUser", "claim", "seed"}
        /\ auth[c] # NONE
        /\ auth[c] = inv[c].principal
        /\ ctx[c].user = auth[c]

\* The seed write of an invocation of client c is acknowledged.
SeedLanded(c) ==
    /\ "seed" \in inv[c].inflight
    /\ "seed" \notin inv'[c].inflight
    /\ budget' = budget

\* The repeated collections of a ProfileRecord.
RepeatedFields ==
    {"skills", "projects", "workExperiences", "organizationExperiences",
     "educations", "certifications", "courses", "testimonials", "socialMedia"}

\* C16 (as claimed): the record a seed leaves has the placeholder name, title
\* and bio, the avatar URL of the principal or the empty string, the default
\* theme, and every repeated collection present and empty.
C16_SeedContent ==
    [][\A c \in Clients : SeedLanded(c) =>
         LET rec == portfolios'[inv[c].uid] IN
         /\ rec.fullName = "Your Name"
         /\ rec.title = "Your Title"
         /\ rec.bio = "A short bio about yourself."
         /\ rec.profilePictureUrl = inv[c].photo
         /\ rec.theme = "default"
         /\ \A f \in RepeatedFields : f \in DOMAIN rec /\ rec[f] = << >>]_vars

\* C17: a seed leaves at the account's id exactly the default record, with
\* no field of what was there before, leaves every other ProfileRecord as it
\* was, and writing the same seed again changes nothing.
C17_SeedOverwrites ==
    [][\A c \in Clients : SeedLanded(c) =>
         LET a == inv[c].uid
             d == SeedDoc(inv[c].path, inv[c].photo)
         IN  /\ portfolios'[a] = d
             /\ DOMAIN portfolios'[a] = DOMAIN d
             /\ OnlyChangedAt(portfolios, portfolios', a)
             /\ SeedWrite(portfolios', a, inv[c].path, inv[c].photo) = portfolios']_vars

\* A completion has seeded an account whose ProfileRecord held content saved
\* from the editor, and none of the editor's extra fields is left.
C17_Witness ==
    \E c \in Clients :
        /\ inv[c].path = "finish"
        /\ "seed" \in inv[c].acked
        /\ Has(inv[c].pre.portfolios, inv[c].uid)
        /\ "textAlign" \in DOMAIN inv[c].pre.portfolios[inv[c].uid]
        /\ Has(portfolios, inv[c].uid)
        /\ "textAlign" \notin DOMAIN portfolios[inv[c].uid]

\* The default records the two forms write.
SeedDocs == {RegisterSeed} \cup {FinishSeed(ph) : ph \in {GooglePhotoOf(u) : u \in Uids} \cup {""}}

\* C18 (as claimed): a seed lands only after the Account write and the claim
\* of its invocation were acknowledged and only at an account that has no
\* ProfileRecord yet; a write to portfolios that is not a seed (an editor
\* save) never leaves a default record.
C18_SeedOnce ==
    [][/\ \A c \in Clients : SeedLanded(c) =>
             /\ {"writeUser", "claim"} \subseteq inv[c].acked
             /\ ~Has(portfolios, inv[c].uid)
       /\ (portfolios' # portfolios /\ \A c \in Clients : ~SeedLanded(c)) =>
             \A a \in DOMAIN portfolios' :
                 (~Has(portfolios, a) \/ portfolios'[a] # portfolios[a])
                     => portfolios'[a] \notin SeedDocs]_vars

\* C19 (as claimed): a completion that has written anything writes at the
\* account id, and with the email, of the principal that is signed in.
C19_CompletionForPrincipal ==
    \A c \in Clients :
        (inv[c].path = "finish" /\ inv[c].nwrites > 0) =>
            /\ inv[c].uid = inv[c].principal
            /\ inv[c].email = EmailOf(inv[c].principal)
            /\ Has(users, inv[c].uid) => users[inv[c].uid].email = EmailOf(inv[c].principal)

\* C20 (as claimed, for the states in which no workflow is in flight): the
\* public page of username u answers not-found when no Account has username
\* lower(u), and otherwise the ProfileRecord of an Account whose username is
\* lower(u).
C20_PublicPage ==
    NoWorkflowInFlight =>
        \A u \in UsernameInputs :
            LET r == getPortfolioData(users, portfolios, u)
                owners == {a \in DOMAIN users : users[a].username = Folded(u)}
            IN  IF owners = {} THEN r = NotFound
                ELSE \E a \in owners : Has(portfolios, a) /\ r = portfolios[a]

C22_Case(c) ==
    /\ inv[c].path \in WorkflowPaths
    /\ inv[c].result = "pending"
    /\ inv'[c].result = "error"
    /\ inv'[c].failedAt \in {"claim", "seed"}

C22_Post(c) ==
    LET a == inv[c].uid
        k == Folded(inv[c].username)
        pre == inv[c].pre
        op == inv'[c].failedAt
    IN  /\ UNCHANGED <<users, usernames, portfolios>>
        /\ inv'[c].inflight = {}
        /\ inv'[c].acked \cap {op, "seed"} = {}
        /\ inv'[c].nwrites = (IF op = "claim" THEN 1 ELSE 2)
        /\ Has(users', a)
        /\ op = "seed" => Has(usernames', k)
        /\ inv[c].solo =>
             /\ users' = Put(pre.users, a, [username |-> k, email |-> inv[c].email,
                                            createdAt |-> "serverTimestamp"])
             /\ usernames' = (IF op = "claim" THEN pre.usernames
                              ELSE Put(pre.usernames, k, a))
             /\ portfolios' = pre.portfolios

\* C22: the three writes are not atomic and are not rolled back.  When the
\* registry claim of an invocation throws, the Account it wrote remains and
\* neither the claim nor the seed is written; when the seed throws, the
\* Account and the registry entry remain; the failing step itself writes
\* nothing, nothing of the invocation is left in flight, and no step of any
\* handler ever deletes a document of the three collections.
C22_NoRollback ==
    [][/\ \A c \in Clients : C22_Case(c) => C22_Post(c)
       /\ DOMAIN users \subseteq DOMAIN users'
       /\ DOMAIN usernames \subseteq DOMAIN usernames'
       /\ DOMAIN portfolios \subseteq DOMAIN portfolios']_vars

\* A completion that ran alone has failed at the seed: Account and registry
\* entry are in the store and the ProfileRecord is not.
C22_Witness ==
    \E c \in Clients :
        /\ inv[c].path = "finish"
        /\ inv[c].failedAt = "seed"
        /\ inv[c].solo
        /\ Has(users, inv[c].uid)
        /\ Has(usernames, Folded(inv[c].username))
        /\ usernames[Folded(inv[c].username)] = inv[c].uid
        /\ ~Has(portfolios, inv[c].uid)

\* C23 (as claimed): in both entry paths a store failure of the Account
\* write, the registry claim or the profile seed is reported with a generic
\* message that is not titled as an authentication error and does not carry
\* the raw error text.
C23_StorageFailureGeneric ==
    \A c \in Clients :
        (inv[c].path \in WorkflowPaths /\ inv[c].result = "error") =>
            /\ inv[c].toast # NoToast
            /\ inv[c].failedAt \in {"writeUser", "claim", "seed"} =>
                  /\ inv[c].toast.title # "Authentication Error"
                  /\ inv[c].toast.description # inv[c].error

\* The Account write of an invocation of client c is acknowledged.
AccountWritten(c) ==
    /\ "writeUser" \in inv[c].inflight
    /\ "writeUser" \notin inv'[c].inflight
    /\ budget' = budget

\* C24 (as claimed): an Account is created once: no registration or
\* completion writes users[a] when it exists, an Account's username never
\* changes and no Account is deleted.
C24_AccountCreatedOnce ==
    [][/\ \A c \in Clients : AccountWritten(c) => ~Has(users, inv[c].uid)
       /\ \A a \in DOMAIN users :
            /\ Has(users', a)
            /\ users'[a].username = users[a].username]_vars

\* The claim write of an invocation of client c is acknowledged.
ClaimLanded(c) ==
    /\ "claim" \in inv[c].inflight
    /\ "claim" \notin inv'[c].inflight
    /\ budget' = budget

\* C25: when workflow invocations do not overlap, a registry entry is
\* written once: the claim of an invocation that ran alone lands only at a
\* key that has no entry, an entry changes its uid only by the claim of an
\* invocation that did not run alone, and no entry is ever deleted.
C25_RegistryImmutable ==
    [][/\ \A c \in Clients :
            (ClaimLanded(c) /\ inv[c].solo) => ~Has(usernames, Folded(inv[c].username))
       /\ \A k \in DOMAIN usernames :
            /\ Has(usernames', k)
            /\ usernames'[k] # usernames[k] =>
                  \E c \in Clients : ClaimLanded(c) /\ ~inv[c].solo]_vars

\* A registration that ran alone asked for a name another account had
\* claimed; it was rejected and the entry is as the last claim left it.
C25_Witness ==
    \E c \in Clients :
        LET k == Folded(inv[c].username) IN
        /\ inv[c].path = "register"
        /\ inv[c].result = "taken"
        /\ inv[c].solo
        /\ Has(usernames, k)
        /\ usernames[k] # UidOfEmail(inv[c].email)
        /\ usernames[k] = lastClaim[k]
        /\ usernames = inv[c].pre.usernames

\* C26 (as claimed): the two entry paths write the same contents: when a
\* workflow that ran alone for a principal without avatar has ended well,
\* the Account, the registry entry and the ProfileRecord it left are those
\* either path writes for that account id, username and email.
C26_SameRoutine ==
    \A c \in Clients :
        ( /\ inv[c].path \in WorkflowPaths
          /\ inv[c].result = "ok"
          /\ inv[c].solo
          /\ inv[c].photo = "" ) =>
            LET a == inv[c].uid
                k == Folded(inv[c].username)
            IN  /\ users[a] = UserDoc(inv[c].username, inv[c].email)
                /\ usernames[k] = a
                /\ \A p \in WorkflowPaths : portfolios[a] = SeedDoc(p, "")

\* The Account the query of the public page selects for username u.
PageOwner(u) ==
    LET matches == {a \in DOMAIN users : users[a].username = Folded(u)} IN
    CHOOSE a \in matches : \A b \in matches : UidRank(a) <= UidRank(b)

\* C27 (as claimed, for the states in which no workflow is in flight):
\* whenever the public page of username u returns a profile, the registry has
\* an entry at lower(u), it names the Account the page selected, and the
\* profile returned is the ProfileRecord of that account.
C27_PageAgreesWithRegistry ==
    NoWorkflowInFlight =>
        \A u \in UsernameInputs :
            LET r == getPortfolioData(users, portfolios, u)
                k == Folded(u)
            IN  r # NotFound =>
                    /\ Has(usernames, k)
                    /\ usernames[k] = PageOwner(u)
                    /\ r = portfolios[usernames[k]]

\* C28 (as claimed): in every reachable state each registry entry
\* usernames[k] with uid a has an Account users[a] whose username is k.
C28_NoStaleRegistryEntry ==
    \A k \in DOMAIN usernames :
        /\ Has(users, usernames[k])
        /\ users[usernames[k]].username = k

\* C29 (as claimed): in the state of AuthProvider, whenever loading is
\* false, userData is set only if user is set and userData.uid is the uid of
\* user, also when callbacks of the listener overlap.
C29_SessionConsistent ==
    \A c \in Clients :
        (~ctx[c].loading /\ ctx[c].userData # {}) =>
            /\ ctx[c].user # NONE
            /\ \A d \in ctx[c].userData : d.uid = ctx[c].user

\* C30 (as claimed): every auth-state change returns the session to
\* loading = false: once no callback of the listener is waiting for its
\* lookup, whether the lookup was answered or failed, loading is false.
C30_LoadingEnds ==
    \A c \in Clients : lookups[c] = << >> => ~ctx[c].loading

====
